---- MODULE Spec2Model ----
(***************************************************************************)
(* A model of the LRU cache of src/lru.go: the recency list (c.ll), the    *)
(* index (c.cache), the lock, the clock, and the background sweeper        *)
(* goroutine (expiredBackground).                                          *)
(*                                                                         *)
(* Time and machine integers are scaled.  One second is NsPerSec clock     *)
(* units (the code's 1e9 ns), and an int64 is an integer of WordBits bits  *)
(* in two's complement; every int64 sum and product of the code is taken   *)
(* through Wrap64.                                                         *)
(***************************************************************************)
EXTENDS Integers, Sequences, FiniteSets, TLC

\* ---------------------------------------------------------------- bounds
NumKeys == 3        \* keys used by the callers: 1..NumKeys
Capacity == 2       \* the nonzero maxEntries given to NewCache
NumValues == 2      \* values stored by the callers: 1..NumValues
NsPerSec == 2       \* clock units per second (1e9 in the code)
WordBits == 6       \* width of an int64 in the model
MaxTicks == 3       \* how far the clock advances beyond StartTime
MaxLockWait == 1    \* longest wait of Set for the lock, in clock units
BigCache == 60      \* size of the large cache of the sweeper-only runs

\* ------------------------------------------------------ program constants
hz == 10
minIterations == 50
NoExpire == -1
TTLNotFound == -2

Keys == 1..NumKeys
Values == 1..NumValues
Int64Max == 2^(WordBits - 1) - 1
StartTime == NsPerSec + 1
MaxNow == StartTime + MaxTicks
Nil == 0

\* The types Set's type switch accepts, and one it does not.
IntTypes == {"int", "int8", "int16", "int32", "int64"}
\* args ...interface{}: absent, or one argument: a TTL that is rejected
\* (negative, zero), a TTL of one second, or a value of another type.
Arg(t, x) == <<[type |-> t, val |-> x]>>
SetArgs == {<<>>, Arg("string", 0), Arg("int", -1), Arg("int", 0), Arg("int64", 1)}

ErrType == "expire time should be int, int8, int16, int32, int64"
ErrTTL == "expire time should be > 0"

VARIABLES
    MaxEntries,   \* c.MaxEntries
    OnEvicted,    \* c.OnEvicted: "nil" or "func"
    ll,           \* c.ll: the entries, front (most recent) first
    cache,        \* c.cache: the keys of the map; a key maps to its element of ll
    lock,         \* c.lock: "unlocked", or "locked" (held and never released)
    now,          \* time.Now().UnixNano()
    pc,           \* the sweeper goroutine: "wait", "ready", "dead"
    iterations,   \* the sweeper's local variable
    last,         \* the step that ran last: the call and its arguments, what it
                  \* returned, the callbacks it made
    hist          \* history: the keys Set so far, while every call was a Set
                  \* without TTL of a key not Set before

vars == <<MaxEntries, OnEvicted, ll, cache, lock, now, pc, iterations, last, hist>>

\* ------------------------------------------------------------- int64
Wrap64(x) ==
    LET m == 2^WordBits
        r == x % m
    IN  IF r > Int64Max THEN r - m ELSE r

\* -------------------------------------------------------- container/list
PushFront(l, e) == <<e>> \o l

ListRemove(l, i) == IF i = 0 THEN l ELSE SubSeq(l, 1, i - 1) \o SubSeq(l, i + 1, Len(l))

\* Mutant: the element stays where it is.
MoveToFrontStays(l, i) == l

MoveToFront(l, i) == IF i = 0 THEN l ELSE <<l[i]>> \o ListRemove(l, i)

\* The position in l of the element the map holds for key k (0: none).
IndexOf(l, k) ==
    IF \E i \in 1..Len(l) : l[i].key = k
    THEN CHOOSE i \in 1..Len(l) : l[i].key = k
    ELSE 0

KeysOf(l) == [i \in 1..Len(l) |-> l[i].key]

\* The entry of the element the map holds for key k.
EntryOf(l, k) == l[IndexOf(l, k)]

\* ------------------------------------------------------------ entries
\* Mutant: the test of line 66 for an entry without expiry is missing.
isExpiredNoSentinel(e, t) == IF e.expire >= t THEN FALSE ELSE TRUE

\* Mutant: an entry counts as expired from the instant of its expiry on.
isExpiredAtDeadline(e, t) ==
    IF e.expire <= 0 THEN FALSE
    ELSE IF e.expire > t THEN FALSE
    ELSE TRUE

isExpired(e, t) ==
    IF e.expire <= 0 THEN FALSE
    ELSE IF e.expire >= t THEN FALSE
    ELSE TRUE

\* What one step leaves in `last` (keys: the snapshot Keys() returned; hit:
\* Set found its key in the map, at line 151).
Ret(op, key, ok, value, err, calls, panicked) ==
    [op |-> op, key |-> key, val |-> Nil, args |-> <<>>, hit |-> FALSE,
     ok |-> ok, value |-> value, keys |-> <<>>, err |-> err,
     calls |-> calls, panicked |-> panicked]

\* The same for Set(key, val, args...).
RetSet(key, val, args, ok, err, calls) ==
    [Ret("Set", key, ok, Nil, err, calls, FALSE) EXCEPT !.val = val, !.args = args]

\* The history once a call other than a Set without TTL of a fresh key ran.
HistOff == [on |-> FALSE, keys |-> <<>>, partial |-> FALSE]

\* Mutant: the key stays in the map.
removeElementKeepsKey(l, c, i, cb) ==
    [ll |-> ListRemove(l, i),
     cache |-> c,
     calls |-> IF cb # "nil" THEN <<<<l[i].key, l[i].value>>>> ELSE <<>>]

\* Mutant: the callback is invoked twice.
removeElementCallsTwice(l, c, i, cb) ==
    [ll |-> ListRemove(l, i),
     cache |-> c \ {l[i].key},
     calls |-> IF cb # "nil"
               THEN <<<<l[i].key, l[i].value>>, <<l[i].key, l[i].value>>>>
               ELSE <<>>]

\* removeElement on the element at position i: the list and the map after
\* it, and the callback invocations it made.
removeElement(l, c, i, cb) ==
    [ll |-> ListRemove(l, i),
     cache |-> c \ {l[i].key},
     calls |-> IF cb # "nil" THEN <<<<l[i].key, l[i].value>>>> ELSE <<>>]

\* Mutant: the front of the list is removed.
removeOldestFront(l, c, cb) ==
    IF Len(l) > 0 THEN removeElement(l, c, 1, cb)
    ELSE [ll |-> l, cache |-> c, calls |-> <<>>]

\* removeOldest: removeElement on the back of the list, if there is one.
removeOldest(l, c, cb) ==
    IF Len(l) > 0 THEN removeElement(l, c, Len(l), cb)
    ELSE [ll |-> l, cache |-> c, calls |-> <<>>]

\* ---------------------------------------------------------------- Init
Init ==
    /\ MaxEntries = Capacity
    /\ OnEvicted \in {"nil", "func"}
    /\ ll = <<>>
    /\ cache = {}
    /\ lock = "unlocked"
    /\ now = StartTime
    /\ pc = "wait"
    /\ iterations = 0
    /\ last = Ret("NewCache", Nil, TRUE, Nil, "", <<>>, FALSE)
    /\ hist = [on |-> TRUE, keys |-> <<>>, partial |-> FALSE]

\* ----------------------------------------------------------------- Set
\* Lines 126-147: the expiry Set computes from its arguments, the clock
\* being read at t0, before the lock is taken.
SetExpire(args, t0) ==
    IF args = <<>> THEN NoExpire
    ELSE Wrap64(t0 + Wrap64(args[1].val * NsPerSec))

\* Mutant: a TTL of zero is accepted.
SetErrorZeroAccepted(args) ==
    IF args = <<>> THEN ""
    ELSE IF args[1].type \notin IntTypes THEN ErrType
    ELSE IF args[1].val < 0 THEN ErrTTL
    ELSE ""

\* Lines 129-145: the error Set returns before it takes the lock ("": none).
SetError(args) ==
    IF args = <<>> THEN ""
    ELSE IF args[1].type \notin IntTypes THEN ErrType
    ELSE IF args[1].val <= 0 THEN ErrTTL
    ELSE ""

\* Lines 95-101: the number of positions one pass examines.
Iterations(numEntries) ==
    LET it == numEntries \div (hz * 10)
    IN  IF it < minIterations
        THEN IF numEntries < 50 THEN numEntries ELSE minIterations
        ELSE it

\* Mutant: the value is replaced and the expiry is kept.
SetExistingKeepsExpire(l, k, v, expire) ==
    LET i == IndexOf(l, k)
    IN  IF i = 0 THEN l
        ELSE <<[key |-> k, value |-> v, expire |-> l[i].expire]>> \o ListRemove(l, i)

\* Mutant: a second element is pushed for the key.
SetExistingPushes(l, k, v, expire) ==
    PushFront(l, [key |-> k, value |-> v, expire |-> expire])

\* Lines 151-156: Set on a key the map holds.
SetExisting(l, k, v, expire) ==
    LET i == IndexOf(l, k)
    IN  IF i = 0 THEN l
        ELSE <<[key |-> k, value |-> v, expire |-> expire]>> \o ListRemove(l, i)

\* Mutant: the oldest is evicted one entry too late.
SetNewOffByOne(l, c, k, v, expire, max, cb) ==
    LET l1 == PushFront(l, [key |-> k, value |-> v, expire |-> expire])
        c1 == c \cup {k}
    IN  IF max # 0 /\ Len(l1) > max + 1
        THEN removeOldest(l1, c1, cb)
        ELSE [ll |-> l1, cache |-> c1, calls |-> <<>>]

\* Mutant: the oldest is evicted as soon as the cache is full.
SetNewEvictsAtCapacity(l, c, k, v, expire, max, cb) ==
    LET l1 == PushFront(l, [key |-> k, value |-> v, expire |-> expire])
        c1 == c \cup {k}
    IN  IF max # 0 /\ Len(l1) >= max
        THEN removeOldest(l1, c1, cb)
        ELSE [ll |-> l1, cache |-> c1, calls |-> <<>>]

\* Mutant: the new element is not entered in the map.
SetNewNoIndex(l, c, k, v, expire, max, cb) ==
    LET l1 == PushFront(l, [key |-> k, value |-> v, expire |-> expire])
    IN  IF max # 0 /\ Len(l1) > max
        THEN removeOldest(l1, c, cb)
        ELSE [ll |-> l1, cache |-> c, calls |-> <<>>]

\* Lines 157-161: Set on a new key: push, index, evict the oldest if over.
SetNew(l, c, k, v, expire, max, cb) ==
    LET l1 == PushFront(l, [key |-> k, value |-> v, expire |-> expire])
        c1 == c \cup {k}
    IN  IF max # 0 /\ Len(l1) > max
        THEN removeOldest(l1, c1, cb)
        ELSE [ll |-> l1, cache |-> c1, calls |-> <<>>]

\* Set returning an error at lines 141 or 144: the lock is never taken and
\* the value is never looked at.
SetRejected(k, args) ==
    /\ SetError(args) # ""
    /\ last' = RetSet(k, Nil, args, FALSE, SetError(args), <<>>)
    /\ hist' = HistOff
    /\ UNCHANGED <<MaxEntries, OnEvicted, ll, cache, lock, now, pc, iterations>>

\* Set from line 149 on.  racy: the sweeper's unlocked read of c.ll.Len()
\* (line 94) lands between PushFront and removeOldest.  (A callback that
\* panics in Set, Get or Remove unwinds through the deferred Unlock and
\* leaves the state the normal return leaves.)
SetLocked(k, v, args, t0, racy) ==
    /\ SetError(args) = ""
    /\ lock = "unlocked"
    /\ args = <<>> => t0 = now
    /\ racy => (pc = "wait" /\ k \notin cache /\ MaxEntries # 0 /\ Len(ll) + 1 > MaxEntries)
    /\ LET expire == SetExpire(args, t0)
       IN  IF k \in cache
           THEN /\ ll' = SetExisting(ll, k, v, expire)
                /\ last' = [RetSet(k, v, args, TRUE, "", <<>>) EXCEPT !.hit = TRUE]
                /\ UNCHANGED <<cache, pc, iterations>>
           ELSE LET r == SetNew(ll, cache, k, v, expire, MaxEntries, OnEvicted)
                IN  /\ ll' = r.ll
                    /\ cache' = r.cache
                    /\ last' = RetSet(k, v, args, TRUE, "", r.calls)
                    /\ IF racy
                       THEN /\ pc' = "ready"
                            /\ iterations' = Iterations(Len(ll) + 1)
                       ELSE UNCHANGED <<pc, iterations>>
    /\ hist' = IF hist.on /\ args = <<>> /\ \A j \in 1..Len(hist.keys) : hist.keys[j] # k
               THEN [hist EXCEPT !.keys = <<k>> \o @]
               ELSE HistOff
    /\ UNCHANGED <<MaxEntries, OnEvicted, lock, now>>

\* ----------------------------------------------------------------- Get
Get(k) ==
    /\ lock = "unlocked"
    /\ IF k \in cache
       THEN LET i == IndexOf(ll, k)
            IN  IF isExpired(ll[i], now)
                THEN LET r == removeElement(ll, cache, i, OnEvicted)
                     IN  /\ ll' = r.ll
                         /\ cache' = r.cache
                         /\ last' = Ret("Get", k, FALSE, Nil, "", r.calls, FALSE)
                ELSE /\ ll' = MoveToFront(ll, i)
                     /\ last' = Ret("Get", k, TRUE, ll[i].value, "", <<>>, FALSE)
                     /\ UNCHANGED cache
       ELSE /\ last' = Ret("Get", k, FALSE, Nil, "", <<>>, FALSE)
            /\ UNCHANGED <<ll, cache>>
    /\ hist' = HistOff
    /\ UNCHANGED <<MaxEntries, OnEvicted, lock, now, pc, iterations>>

\* -------------------------------------------------------------- Remove
Remove(k) ==
    /\ lock = "unlocked"
    /\ IF k \in cache
       THEN LET r == removeElement(ll, cache, IndexOf(ll, k), OnEvicted)
            IN  /\ ll' = r.ll
                /\ cache' = r.cache
                /\ last' = Ret("Remove", k, TRUE, Nil, "", r.calls, FALSE)
       ELSE /\ last' = Ret("Remove", k, TRUE, Nil, "", <<>>, FALSE)
            /\ UNCHANGED <<ll, cache>>
    /\ hist' = HistOff
    /\ UNCHANGED <<MaxEntries, OnEvicted, lock, now, pc, iterations>>

\* ----------------------------------------------------------------- Len
CacheLen ==
    /\ lock = "unlocked"
    /\ last' = Ret("Len", Nil, TRUE, Len(ll), "", <<>>, FALSE)
    /\ UNCHANGED <<MaxEntries, OnEvicted, ll, cache, lock, now, pc, iterations, hist>>

\* ----------------------------------------------------------------- TTL
\* Lines 240-251: what TTL returns for key k at clock t.
TTLResult(l, c, k, t) ==
    IF k \in c
    THEN LET expire == l[IndexOf(l, k)].expire
             ttl == Wrap64(expire - t)
         IN  IF expire <= 0 THEN -1
             ELSE IF ttl > 0 THEN ttl \div NsPerSec
             ELSE 0
    ELSE TTLNotFound

TTL(k) ==
    /\ lock = "unlocked"
    /\ last' = Ret("TTL", k, TRUE, TTLResult(ll, cache, k, now), "", <<>>, FALSE)
    /\ UNCHANGED <<MaxEntries, OnEvicted, ll, cache, lock, now, pc, iterations, hist>>

\* ------------------------------------------------------------- sweeper
\* Mutant: an entry that is not expired is left at the back.
SweepStepNoRotate(s, faultAt, t, cb) ==
    IF isExpired(s.ll[Len(s.ll)], t)
    THEN LET r == removeElement(s.ll, s.cache, Len(s.ll), cb)
         IN  [ll |-> r.ll, cache |-> r.cache, i |-> s.i + 1,
              calls |-> s.calls \o r.calls,
              panicked |-> r.calls # <<>> /\ Len(s.calls) + 1 = faultAt]
    ELSE [s EXCEPT !.i = s.i + 1]

\* Mutant: an iteration that reclaims an entry is not counted.
SweepStepRemovalNotCounted(s, faultAt, t, cb) ==
    IF isExpired(s.ll[Len(s.ll)], t)
    THEN LET r == removeElement(s.ll, s.cache, Len(s.ll), cb)
         IN  [ll |-> r.ll, cache |-> r.cache, i |-> s.i,
              calls |-> s.calls \o r.calls,
              panicked |-> r.calls # <<>> /\ Len(s.calls) + 1 = faultAt]
    ELSE [s EXCEPT !.ll = MoveToFront(s.ll, Len(s.ll)), !.i = s.i + 1]

\* Lines 104-109: one iteration of the loop of a pass, at clock t, on the
\* state s of the pass: the list, the map, the iterations done, the callback
\* invocations made.  faultAt: the callback invocation of this pass that
\* panics (0: none).
SweepStep(s, faultAt, t, cb) ==
    IF isExpired(s.ll[Len(s.ll)], t)
    THEN LET r == removeElement(s.ll, s.cache, Len(s.ll), cb)
         IN  [ll |-> r.ll, cache |-> r.cache, i |-> s.i + 1,
              calls |-> s.calls \o r.calls,
              panicked |-> r.calls # <<>> /\ Len(s.calls) + 1 = faultAt]
    ELSE [s EXCEPT !.ll = MoveToFront(s.ll, Len(s.ll)), !.i = s.i + 1]

\* Line 103: the loop, until its iterations are done, the list is empty or
\* the callback has panicked.  (x is the value of the state after one
\* iteration.)
RECURSIVE SweepLoop(_, _, _, _, _)
SweepLoop(s, its, faultAt, t, cb) ==
    IF s.panicked \/ ~(s.i < its /\ Len(s.ll) > 0)
    THEN s
    ELSE CHOOSE out \in {SweepLoop(x, its, faultAt, t, cb) :
                             x \in {SweepStep(s, faultAt, t, cb)}} : TRUE

\* The state in which a pass starts.
SweepStart(l, c) == [ll |-> l, cache |-> c, i |-> 0, calls |-> <<>>, panicked |-> FALSE]

\* Lines 90-101: a tick arrives; the size is read without the lock and the
\* number of iterations computed from it.
SweeperTick ==
    /\ pc = "wait"
    /\ pc' = "ready"
    /\ iterations' = Iterations(Len(ll))
    /\ last' = Ret("tick", Nil, TRUE, Nil, "", <<>>, FALSE)
    /\ UNCHANGED <<MaxEntries, OnEvicted, ll, cache, lock, now, hist>>

\* Lines 102-111: the pass, under the lock.  A panic of the callback leaves
\* the loop and the function through the deferred recover of lines 80-84:
\* the goroutine ends and line 111 never runs.
SweeperPass(faultAt) ==
    /\ pc = "ready"
    /\ lock = "unlocked"
    /\ faultAt # 0 => OnEvicted # "nil"
    /\ \E r \in {SweepLoop(SweepStart(ll, cache), iterations, faultAt, now, OnEvicted)} :
           /\ ll' = r.ll
           /\ cache' = r.cache
           /\ last' = Ret("sweep", Nil, ~r.panicked, Nil, "", r.calls, r.panicked)
           /\ pc' = IF r.panicked THEN "dead" ELSE "wait"
           /\ lock' = IF r.panicked THEN "locked" ELSE "unlocked"
    /\ iterations' = 0
    /\ hist' = IF hist.on /\ Len(ll) > 0 /\ iterations # Len(ll)
               THEN [hist EXCEPT !.partial = TRUE]
               ELSE hist
    /\ UNCHANGED <<MaxEntries, OnEvicted, now>>

\* --------------------------------------------------------------- clock
AdvanceTime ==
    /\ now < MaxNow
    /\ now' = now + 1
    /\ last' = Ret("clock", Nil, TRUE, Nil, "", <<>>, FALSE)
    /\ UNCHANGED <<MaxEntries, OnEvicted, ll, cache, lock, pc, iterations, hist>>

\* ---------------------------------------------------------------- Next
ReadTimes == {t \in (now - MaxLockWait)..now : t >= StartTime}

Next ==
    \/ \E k \in Keys, args \in SetArgs : SetRejected(k, args)
    \/ \E k \in Keys, v \in Values, args \in SetArgs, t0 \in ReadTimes,
          racy \in BOOLEAN : SetLocked(k, v, args, t0, racy)
    \/ \E k \in Keys : Get(k)
    \/ \E k \in Keys : Remove(k)
    \/ CacheLen
    \/ \E k \in Keys : TTL(k)
    \/ SweeperTick
    \/ \E faultAt \in 0..Len(ll) : SweeperPass(faultAt)
    \/ AdvanceTime

Spec == Init /\ [][Next]_vars

\* ------------------------------------------------- the sweeper on its own
\* A cache of n entries that n Sets at StartTime built, keys 1..n in this
\* order, the keys of X with a TTL of one second and the others without.
Built(n, X) ==
    [i \in 1..n |->
        [key |-> n + 1 - i, value |-> 1,
         expire |-> IF (n + 1 - i) \in X THEN StartTime + NsPerSec ELSE NoExpire]]

\* Small caches with every choice of X; a cache above the floor of
\* minIterations with no key, one key, or every key in X.
SweepCaches ==
    {Built(NumKeys, X) : X \in SUBSET (1..NumKeys)}
        \cup {Built(BigCache, {p}) : p \in 1..BigCache}
        \cup {Built(BigCache, {}), Built(BigCache, 1..BigCache)}

SweepInit ==
    /\ MaxEntries = 0
    /\ OnEvicted \in {"nil", "func"}
    /\ ll \in SweepCaches
    /\ cache = {ll[i].key : i \in 1..Len(ll)}
    /\ lock = "unlocked"
    /\ now = StartTime
    /\ pc = "wait"
    /\ iterations = 0
    /\ last = RetSet(ll[1].key, 1, <<>>, TRUE, "", <<>>)
    /\ hist = HistOff

\* No foreground call, and a callback that does not panic.
SweepNext ==
    \/ SweeperTick
    \/ SweeperPass(0)
    \/ AdvanceTime

\* The ticker keeps ticking and the goroutine keeps being scheduled.
SweepSpec ==
    /\ SweepInit
    /\ [][SweepNext]_vars
    /\ WF_vars(SweeperTick)
    /\ WF_vars(SweeperPass(0))

\* ------------------------------------ the size read of a tick on its own
\* The sizes around which the number of iterations changes its rule: below
\* and above the floor of minIterations, and around the size from which
\* numEntries / (hz * 10) exceeds the floor.
WindowSizes ==
    (1..BigCache) \cup ((hz * 10 * minIterations - 1)..(hz * 10 * (minIterations + 1)))

\* A cache of one of these sizes, none of its entries with a TTL.
WindowInit ==
    /\ MaxEntries = 0
    /\ OnEvicted = "nil"
    /\ ll \in {Built(n, {}) : n \in WindowSizes}
    /\ cache = {ll[i].key : i \in 1..Len(ll)}
    /\ lock = "unlocked"
    /\ now = StartTime
    /\ pc = "wait"
    /\ iterations = 0
    /\ last = RetSet(ll[1].key, 1, <<>>, TRUE, "", <<>>)
    /\ hist = HistOff

\* The tick, which computes the iterations of its pass, and the clock.
WindowNext ==
    \/ SweeperTick
    \/ AdvanceTime

WindowSpec == WindowInit /\ [][WindowNext]_vars

\* ------------------------------------------- the callers on their own
\* A cache of any capacity from 0 (unbounded) to Capacity.
CapInit ==
    /\ MaxEntries \in 0..Capacity
    /\ OnEvicted \in {"nil", "func"}
    /\ ll = <<>>
    /\ cache = {}
    /\ lock = "unlocked"
    /\ now = StartTime
    /\ pc = "wait"
    /\ iterations = 0
    /\ last = Ret("NewCache", Nil, TRUE, Nil, "", <<>>, FALSE)
    /\ hist = HistOff

\* Set, Get, Len and TTL while the sweeper is between two ticks.
CapNext ==
    \/ \E k \in Keys, v \in Values, args \in SetArgs, t0 \in ReadTimes :
           SetLocked(k, v, args, t0, FALSE)
    \/ \E k \in Keys : Get(k)
    \/ CacheLen
    \/ \E k \in Keys : TTL(k)
    \/ AdvanceTime

CapSpec == CapInit /\ [][CapNext]_vars

\* ------------------------------------------------------ long TTLs
\* TTLs of the whole range of an int64: one second, the largest number of
\* seconds whose nanoseconds fit an int64, and the largest int64.
WideArgs == {Arg("int64", 1), Arg("int64", Int64Max \div NsPerSec), Arg("int64", Int64Max)}

\* Sets with these TTLs, and the calls that read the expiry they stored.
WideNext ==
    \/ \E k \in Keys, v \in Values, args \in WideArgs, t0 \in ReadTimes :
           SetLocked(k, v, args, t0, FALSE)
    \/ \E k \in Keys : Get(k)
    \/ \E k \in Keys : TTL(k)
    \/ AdvanceTime

WideSpec == Init /\ [][WideNext]_vars

\* ------------------------------------------------- Keys and FlushAll
\* Keys() and FlushAll() are called by lru_test.go (TestKeys, TestFlushAll);
\* their bodies are taken from the description of the cache API.

\* The keys of the entries of l that are not expired at clock t.
LiveKeys(l, t) == {l[i].key : i \in {j \in 1..Len(l) : ~isExpired(l[j], t)}}

\* The snapshots Keys() may return for a set S of keys: every key of S once,
\* in recency order or in any other order.
Snapshots(S) ==
    {s \in [1..Cardinality(S) -> S] : \A i, j \in 1..Cardinality(S) : s[i] = s[j] => i = j}

\* Keys(): a snapshot, taken under the lock, of the keys that are stored and
\* not expired; nothing is reclaimed and nothing is promoted.
CacheKeys ==
    /\ lock = "unlocked"
    /\ \E s \in Snapshots(LiveKeys(ll, now)) :
           last' = [Ret("Keys", Nil, TRUE, Nil, "", <<>>, FALSE) EXCEPT !.keys = s]
    /\ UNCHANGED <<MaxEntries, OnEvicted, ll, cache, lock, now, pc, iterations, hist>>

\* FlushAll(): under the lock, the list and the map are replaced by empty
\* ones; the configuration stays.  cbs: whether the callback is invoked for
\* the entries dropped (either policy is allowed).
FlushAll(cbs) ==
    /\ lock = "unlocked"
    /\ cbs => OnEvicted # "nil"
    /\ ll' = <<>>
    /\ cache' = {}
    /\ last' = Ret("FlushAll", Nil, TRUE, Nil, "",
                   IF cbs THEN [i \in 1..Len(ll) |-> <<ll[i].key, ll[i].value>>] ELSE <<>>,
                   FALSE)
    /\ hist' = HistOff
    /\ UNCHANGED <<MaxEntries, OnEvicted, lock, now, pc, iterations>>

\* The cache with every call of its API.
ApiNext ==
    \/ Next
    \/ CacheKeys
    \/ \E cbs \in BOOLEAN : FlushAll(cbs)

ApiSpec == Init /\ [][ApiNext]_vars

\* =================================================================
\* Properties.  Every step writes `last`, so last'.op names the action of
\* a step that changes the state.
\* =================================================================

\* ----------------------------------------------------------------- C1
\* C1: a cache built with MaxEntries M > 0 never holds more than M entries
\* in a state between two operations; a Set that has inserted a new key into
\* a full cache has evicted one entry when it returns.
C1_CapacityBound ==
    MaxEntries > 0 => (Len(ll) <= MaxEntries /\ Cardinality(cache) <= MaxEntries)

\* A Set has returned after evicting, and the cache is full.
C1_Witness ==
    /\ last.op = "Set" /\ last.ok /\ last.calls # <<>>
    /\ Len(ll) = MaxEntries

\* ----------------------------------------------------------------- C2
\* C2 as stated: after N > M Sets of pairwise distinct keys without TTL, in
\* any interleaving with sweeper passes, Len() = M and the stored keys
\* are the M most recently Set keys, most recent first.
C2_RecentKeysKept ==
    (hist.on /\ MaxEntries > 0 /\ Len(hist.keys) > MaxEntries)
        => /\ Len(ll) = MaxEntries
           /\ KeysOf(ll) = SubSeq(hist.keys, 1, MaxEntries)

\* C2 as amended: the same, provided every sweeper pass in between examined
\* exactly as many positions as the list held when the pass started.
C2_RecentKeysKeptFullPasses ==
    (hist.on /\ ~hist.partial /\ MaxEntries > 0 /\ Len(hist.keys) > MaxEntries)
        => /\ Len(ll) = MaxEntries
           /\ KeysOf(ll) = SubSeq(hist.keys, 1, MaxEntries)

\* More than M distinct keys were Set, and a pass over the whole list ran.
C2_Witness ==
    /\ hist.on /\ ~hist.partial /\ Len(hist.keys) > MaxEntries
    /\ last.op = "sweep"

\* ----------------------------------------------------------------- C3
\* What Get(k) does, from the state before it.
GetPost(k) ==
    IF k \in cache /\ ~isExpired(EntryOf(ll, k), now)
    THEN /\ last'.ok /\ last'.value = EntryOf(ll, k).value
         /\ last'.calls = <<>>
         /\ ll' = <<EntryOf(ll, k)>> \o SelectSeq(ll, LAMBDA e : e.key # k)
         /\ cache' = cache
    ELSE /\ ~last'.ok /\ last'.value = Nil
         /\ IF k \in cache
            THEN /\ ll' = SelectSeq(ll, LAMBDA e : e.key # k)
                 /\ Len(ll') = Len(ll) - 1
                 /\ cache' = cache \ {k}
                 /\ last'.calls = IF OnEvicted = "nil" THEN <<>>
                                  ELSE <<<<k, EntryOf(ll, k).value>>>>
            ELSE /\ ll' = ll /\ cache' = cache /\ last'.calls = <<>>

\* The value stored for a key is the value of the last successful Set of it:
\* a successful Set(k, v) stores v, and no other step changes the value of k.
ValueIsLastSet ==
    /\ (last'.op = "Set" /\ last'.ok)
           => /\ last'.key \in cache'
              /\ EntryOf(ll', last'.key).value = last'.val
    /\ \A k \in cache' :
           \/ k \in cache /\ EntryOf(ll, k).value = EntryOf(ll', k).value
           \/ last'.op = "Set" /\ last'.ok /\ last'.key = k

\* C3: Get(k) returns (v, true), v the value of the last successful Set of k,
\* and moves k to the head, exactly when k is stored and not expired; else it
\* returns (nil, false), and an expired k is removed from list and map, with
\* one callback invocation.
C3_Get ==
    [][/\ ValueIsLastSet
       /\ last'.op = "Get" => GetPost(last'.key)]_vars

\* A Get has reclaimed an expired entry.
C3_Witness ==
    /\ last.op = "Get" /\ ~last.ok
    /\ last.calls # <<>> /\ last.calls[1][1] = last.key
    /\ last.key \notin cache

\* ----------------------------------------------------------------- C4
\* A TTL argument that must be rejected.
BadTTL(args) ==
    args # <<>> /\ (args[1].type \notin IntTypes \/ args[1].val <= 0)

\* C4: a Set with a TTL argument that is <= 0 or not of an integer type
\* returns (false, error) and changes nothing: keys, values, expirations and
\* order stay, and no callback is invoked.
C4_BadTTLRejected ==
    [][(last'.op = "Set" /\ BadTTL(last'.args))
           => /\ ll' = ll /\ cache' = cache
              /\ ~last'.ok /\ last'.err # "" /\ last'.calls = <<>>]_vars

\* A Set with a TTL of zero or less was rejected for a key that is stored.
C4_Witness ==
    /\ last.op = "Set" /\ last.err = ErrTTL
    /\ last.key \in cache

\* ----------------------------------------------------------------- C5
\* The step evicts key k for capacity: a Set of a new key into a full cache
\* whose oldest entry is k.
EvictsOldest(k) ==
    /\ MaxEntries # 0 /\ Len(ll) = MaxEntries /\ ll[Len(ll)].key = k
    /\ last'.op = "Set" /\ last'.ok /\ last'.key \notin cache

\* C5: an entry Set without TTL never expires: no clock value makes it
\* expired, only Remove, capacity eviction or a Set with a TTL ends it, and
\* TTL returns -1 for it.
C5_NoTTLNeverExpires ==
    [][/\ (last'.op = "Set" /\ last'.ok /\ last'.args = <<>>)
              => EntryOf(ll', last'.key).expire = NoExpire
       /\ \A k \in cache :
              EntryOf(ll, k).expire = NoExpire
                  => /\ \A t \in StartTime..MaxNow : ~isExpired(EntryOf(ll, k), t)
                     /\ (last'.op = "TTL" /\ last'.key = k) => last'.value = -1
                     /\ k \notin cache'
                            => \/ last'.op = "Remove" /\ last'.key = k
                               \/ EvictsOldest(k)
                     /\ (k \in cache' /\ EntryOf(ll', k).expire # NoExpire)
                            => /\ last'.op = "Set" /\ last'.key = k
                               /\ last'.args # <<>>]_vars

\* The clock is at its end, a pass has run, and an entry without TTL is stored.
C5_Witness ==
    /\ now = MaxNow /\ last.op = "sweep"
    /\ \E i \in 1..Len(ll) : ll[i].expire = NoExpire

\* ----------------------------------------------------------------- C6
\* C6: TTL(k) returns -2 when k is not stored and when k is stored but
\* expired; it returns no other value for an expired key.
C6_TTLOfExpiredIsNotFound ==
    [][(/\ last'.op = "TTL"
        /\ \/ last'.key \notin cache
           \/ isExpired(EntryOf(ll, last'.key), now))
           => last'.value = TTLNotFound]_vars

\* ----------------------------------------------------------------- C7
\* C7: Remove(k) of a stored key removes that entry and no other from list
\* and map, and k stays absent (a Get of it finds nothing) until a Set of k;
\* Remove(k) of an absent key changes nothing and invokes no callback.
C7_Remove ==
    [][/\ last'.op = "Remove"
              => IF last'.key \in cache
                 THEN /\ ll' = SelectSeq(ll, LAMBDA e : e.key # last'.key)
                      /\ Len(ll') = Len(ll) - 1
                      /\ cache' = cache \ {last'.key}
                 ELSE /\ ll' = ll /\ cache' = cache
                      /\ last'.ok /\ last'.err = "" /\ ~last'.panicked
                      /\ last'.calls = <<>>
       /\ (last'.op = "Get" /\ last'.key \notin cache)
              => (~last'.ok /\ last'.value = Nil)
       /\ \A k \in Keys :
              (k \notin cache /\ k \in cache')
                  => (last'.op = "Set" /\ last'.ok /\ last'.key = k)]_vars

\* A stored key was removed and the cache still holds another one.
C7_Witness ==
    /\ last.op = "Remove" /\ last.key \notin cache
    /\ last.calls = <<<<last.key, 1>>>>
    /\ Len(ll) = 1

\* ----------------------------------------------------------------- C8
\* The positions of the entries that this step removes.
RemovedPos == {i \in 1..Len(ll) : \A j \in 1..Len(ll') : ll'[j].key # ll[i].key}

\* C8: with a callback configured, a step invokes it once for each entry it
\* removes (eviction in Set, reclamation in a pass or in Get, Remove), with
\* that entry's key and value, and for no entry that stays stored.
C8_CallbackOncePerRemoval ==
    [][OnEvicted # "nil"
           => /\ Len(last'.calls) = Cardinality(RemovedPos)
              /\ {last'.calls[j] : j \in 1..Len(last'.calls)}
                     = {<<ll[i].key, ll[i].value>> : i \in RemovedPos}]_vars

\* One pass has reclaimed two entries.
C8_Witness == last.op = "sweep" /\ Len(last.calls) = 2

\* ----------------------------------------------------------------- C9
\* C9: a fault in one tick of the sweeper (the callback panicking) is
\* absorbed: after it the sweeper waits for its next tick.
C9_FaultAbsorbed == (last.op = "sweep" /\ last.panicked) => pc = "wait"

\* ---------------------------------------------------------------- C10
\* The positions of the list that hold an expired entry.
StoredExpired == {i \in 1..Len(ll) : isExpired(ll[i], now)}

\* C10: with no foreground call, the sweeper ticking and not faulting, every
\* stored entry that has expired is removed in the end, in caches below and
\* above the floor of minIterations.  (No entry that has expired is Set
\* again in these runs, so it has been removed once no stored entry is
\* expired.)
C10_ExpiredEventuallySwept == (StoredExpired # {}) ~> (StoredExpired = {})

\* The newest entry of the large cache, which the first pass over it does
\* not reach, has been reclaimed.
C10_Witness ==
    /\ last.op = "sweep"
    /\ Len(ll) = BigCache - 1 /\ BigCache \notin cache

\* ---------------------------------------------------------------- C11
\* The keys that are stored and whose TTL has not elapsed: no expiry, or an
\* expiry that is not before the clock.
StoredNotExpired ==
    {k \in cache : EntryOf(ll, k).expire <= 0 \/ EntryOf(ll, k).expire >= now}

\* C11: Keys() returns exactly the keys that are stored and not expired at
\* the time of the call, each once; a key whose TTL has elapsed is left out
\* although no pass and no Get has reclaimed it, and Keys() reclaims nothing.
C11_KeysAreLiveKeys ==
    [][last'.op = "Keys"
           => /\ {last'.keys[i] : i \in 1..Len(last'.keys)} = StoredNotExpired
              /\ Len(last'.keys) = Cardinality(StoredNotExpired)
              /\ ll' = ll /\ cache' = cache]_vars

\* Keys() has left out a key that is stored and expired, and returned another.
C11_Witness ==
    /\ last.op = "Keys" /\ Len(last.keys) = 1
    /\ Len(ll) = 2
    /\ \E i \in 1..Len(ll) : isExpired(ll[i], now)

\* ---------------------------------------------------------------- C12
\* C12: FlushAll() removes every entry in one step under the lock and leaves
\* MaxEntries and the callback as they were; right after it Len() is 0 and
\* every Get finds nothing, and a Set right after it stores its entry as in
\* an empty cache, so that the cache then holds this one entry.
C12_FlushAllEmpties ==
    [][/\ last'.op = "FlushAll"
              => /\ ll' = <<>> /\ cache' = {}
                 /\ MaxEntries' = MaxEntries /\ OnEvicted' = OnEvicted
       /\ last.op = "FlushAll"
              => /\ last'.op = "Len" => last'.value = 0
                 /\ last'.op = "Get" => (~last'.ok /\ last'.value = Nil)
                 /\ (last'.op = "Set" /\ last'.ok)
                        => /\ Len(ll') = 1 /\ cache' = {last'.key}
                           /\ ll'[1].key = last'.key /\ ll'[1].value = last'.val
                           /\ last'.calls = <<>>]_vars

\* FlushAll() has dropped a full cache.
C12_Witness ==
    /\ last.op = "FlushAll" /\ Len(last.calls) = Capacity
    /\ ll = <<>> /\ cache = {} /\ MaxEntries = Capacity

\* ---------------------------------------------------------------- C13
\* C13: in every state between two operations, the map and the list agree:
\* as many keys as elements, every key of the map carried by one element,
\* every element's key in the map, and no key carried by two elements;
\* through every interleaving of Set, Get, Remove, eviction and passes.
C13_IndexMatchesList ==
    /\ Cardinality(cache) = Len(ll)
    /\ \A k \in cache : Cardinality({i \in 1..Len(ll) : ll[i].key = k}) = 1
    /\ \A i \in 1..Len(ll) : ll[i].key \in cache
    /\ \A i, j \in 1..Len(ll) : ll[i].key = ll[j].key => i = j

\* A Set of a stored key has returned while the cache is full.
C13_Witness ==
    /\ last.op = "Set" /\ last.ok /\ last.hit
    /\ Len(ll) = Capacity /\ ll[1].key = last.key
    /\ ll[1].expire # NoExpire /\ ll[2].expire # NoExpire

\* ---------------------------------------------------------------- C14
\* C14: the sweeper reads the size under the lock it sweeps under, so no
\* foreground call runs between the read and the pass: a pass examines
\* the number of positions prescribed for the size of the list it starts
\* on, and a cache below the floor of minIterations is swept in full.
C14_SizeReadUnderLock ==
    [][last'.op = "sweep"
           => /\ iterations = Iterations(Len(ll))
              /\ Len(ll) < minIterations => iterations = Len(ll)]_vars

\* ---------------------------------------------------------------- C15
\* C15: after a pass in which the callback panicked, the lock taken for the
\* pass is released, so that later Set, Get, Remove, Len and TTL calls
\* acquire it and return.
C15_LockReleasedAfterFault ==
    (last.op = "sweep" /\ last.panicked) => lock = "unlocked"

\* ---------------------------------------------------------------- C16
\* C16: for every size n of the cache, the iterations computed for one
\* tick, taken hz * 10 times (the ticks of the window of 10 seconds), are at
\* least n: a window with no foreground call examines every entry.
C16_WindowCoversCache ==
    pc = "ready" => hz * 10 * iterations >= Len(ll)

\* ---------------------------------------------------------------- C17
\* C17: an entry is evicted for capacity only by a Set that inserts a new
\* key and brings the size above a nonzero MaxEntries; this Set removes one
\* entry, the back of the list as it was, never the key it inserts, and the
\* callback gets that entry's key and value.  A Set of a stored key, TTL and
\* Len remove nothing, and Get removes only the expired key it was asked for.
C17_EvictionOnlyInSetNew ==
    [][/\ (last'.op = "Set" /\ last'.ok /\ last'.key \notin cache)
              => /\ Len(ll') >= 1 /\ ll'[1].key = last'.key /\ last'.key \in cache'
                 /\ IF MaxEntries # 0 /\ Len(ll) + 1 > MaxEntries
                    THEN /\ Len(ll) >= 1 /\ Len(ll') = Len(ll)
                         /\ SubSeq(ll', 2, Len(ll')) = SubSeq(ll, 1, Len(ll) - 1)
                         /\ cache' = (cache \cup {last'.key}) \ {ll[Len(ll)].key}
                         /\ last'.calls =
                                IF OnEvicted = "nil" THEN <<>>
                                ELSE <<<<ll[Len(ll)].key, ll[Len(ll)].value>>>>
                    ELSE /\ SubSeq(ll', 2, Len(ll')) = ll
                         /\ cache' = cache \cup {last'.key}
                         /\ last'.calls = <<>>
       /\ (last'.op = "Set" /\ last'.key \in cache)
              => (cache' = cache /\ Len(ll') = Len(ll) /\ last'.calls = <<>>)
       /\ last'.op \in {"TTL", "Len"}
              => (ll' = ll /\ cache' = cache /\ last'.calls = <<>>)
       /\ last'.op = "Get"
              => \A k \in cache \ cache' :
                     k = last'.key /\ isExpired(EntryOf(ll, k), now)]_vars

\* A Set into a full cache of one entry has evicted the other key.
C17_Witness ==
    /\ MaxEntries = 1 /\ last.op = "Set" /\ last.ok
    /\ Len(last.calls) = 1 /\ last.calls[1][1] # last.key
    /\ KeysOf(ll) = <<last.key>>

\* ---------------------------------------------------------------- C18
\* C18: a successful Set(k, v[, ttl]) of a stored key puts k at the head
\* with the value and the expiry of this call (no expiry without a TTL; with
\* one, the clock as Set read it plus the TTL, whatever the expiry was), and
\* changes nothing else: the other entries keep their order, values and
\* expiries, the keys and the length stay, nothing is evicted and no
\* callback is invoked.
C18_SetExistingReplaces ==
    [][(last'.op = "Set" /\ last'.ok /\ last'.key \in cache)
           => /\ Len(ll') = Len(ll) /\ cache' = cache
              /\ ll'[1].key = last'.key /\ ll'[1].value = last'.val
              /\ IF last'.args = <<>>
                 THEN ll'[1].expire = NoExpire
                 ELSE ll'[1].expire
                          \in {t + last'.args[1].val * NsPerSec : t \in ReadTimes}
              /\ SubSeq(ll', 2, Len(ll')) = SelectSeq(ll, LAMBDA e : e.key # last'.key)
              /\ last'.calls = <<>>
              /\ MaxEntries' = MaxEntries /\ OnEvicted' = OnEvicted]_vars

\* A Set without TTL of a stored key has moved it to the head of a full
\* cache, past an entry with a TTL.
C18_Witness ==
    /\ last.op = "Set" /\ last.hit /\ last.args = <<>>
    /\ Len(ll) = Capacity /\ ll[1].key = last.key
    /\ ll[1].expire = NoExpire /\ ll[2].expire # NoExpire

\* ---------------------------------------------------------------- C19
\* C19: for every accepted TTL of t > 0 seconds, up to the largest int64,
\* Set stores the clock it read plus t seconds, without wrap-around: the
\* expiry is later than the clock, the entry is not expired, and a TTL(k)
\* right after the Set returns a value from 0 to t, never -1 or -2.
C19_ExpiryWithoutWrap ==
    [][(last'.op = "Set" /\ last'.ok /\ last'.args # <<>>)
           => /\ last'.key \in cache'
              /\ EntryOf(ll', last'.key).expire
                     \in {t0 + last'.args[1].val * NsPerSec : t0 \in ReadTimes}
              /\ EntryOf(ll', last'.key).expire > now
              /\ ~isExpired(EntryOf(ll', last'.key), now)
              /\ TTLResult(ll', cache', last'.key, now) \in 0..last'.args[1].val]_vars

\* ---------------------------------------------------------------- C20
\* C20: a pass that examines as many positions as the list holds when it
\* starts removes exactly the entries that are expired and leaves the others
\* in the order they had, head to tail; so the back of the list, which the
\* next capacity eviction would take, is the last of them as before.
C20_FullPassKeepsOrder ==
    [][(last'.op = "sweep" /\ ~last'.panicked /\ iterations = Len(ll))
           => /\ ll' = SelectSeq(ll, LAMBDA e : ~(e.expire > 0 /\ e.expire < now))
              /\ cache' = {ll'[i].key : i \in 1..Len(ll')}
              /\ Len(last'.calls) = IF OnEvicted = "nil" THEN 0 ELSE Len(ll) - Len(ll')]_vars

\* A pass over the whole list has reclaimed one entry and kept the others.
C20_Witness ==
    /\ last.op = "sweep" /\ OnEvicted = "func" /\ Len(last.calls) = 1
    /\ Len(ll) = NumKeys - 1
    /\ \A i \in 1..Len(ll) : ll[i].expire = NoExpire

====
